---- MODULE Spec2Model ----
(***************************************************************************)
(* A model of the logistic-map study of kyle-brindley/chaos:               *)
(*   src/chaos/main.py  return_periods, is_period_stable, stable_period,   *)
(*                      logistic, calculate_curves                         *)
(* Floating point values are modelled as exact rationals <<n, d>> in       *)
(* lowest terms with d > 0; <<0, 0>> is NaN (the "unset" sentinel of the   *)
(* value array).  Python's 0-based indices are kept in the variables       *)
(* depth and iteration; sequences are 1-based, so states[depth, row, i] is *)
(* states[depth + 1][row + 1][i + 1].                                      *)
(***************************************************************************)
EXTENDS Integers, Sequences, FiniteSets, TLC

VARIABLES
    \* ---- calculate_curves: arguments
    initial_states, parameters, max_period, max_iteration, relative_tolerance,
    \* ---- calculate_curves: locals
    states, parameter_periods, depth, iteration,
    \* ---- calculate_curves: control ("off", "start", "loop", "returned", "raised"),
    \* the exception raised, the number of map steps done, and per parameter
    \* the iteration at which its loop executed break (None: it did not)
    pc, error, steps, break_iteration,
    \* ---- per row, the number of is_period_stable calls of the latest step
    checks,
    \* ---- a single call of one of the stability detector's functions
    d_pc, d_curve, d_period, d_max_period, d_tol, d_result,
    \* ---- a single call of the map: its control, arguments and result
    map_call,
    \* ---- a single call of a plotting function (its arguments and position)
    \* and the calls matplotlib.pyplot has received
    plot_call, pyplot,
    \* ---- one run of chaos.main.main(): the parsed arguments, the file named
    \* by --input, the position in main, the dataset bound to data and the
    \* calls made so far
    cli,
    \* ---- one call of main.calculate_states, the engine of the module the
    \* tests import: its effective arguments, locals and control
    old

vars == <<initial_states, parameters, max_period, max_iteration,
          relative_tolerance, states, parameter_periods, depth, iteration,
          pc, error, steps, break_iteration, checks,
          d_pc, d_curve, d_period, d_max_period, d_tol, d_result,
          map_call, plot_call, pyplot, cli, old>>

engine_vars == <<initial_states, parameters, max_period, max_iteration,
                 relative_tolerance, states, parameter_periods, depth,
                 iteration, pc, error, steps, break_iteration, checks>>

detector_vars == <<d_pc, d_curve, d_period, d_max_period, d_tol, d_result>>

\* What a step of calculate_curves, and a call of the detector, leave alone
plot_vars == <<plot_call, pyplot>>

outside_engine == <<detector_vars, map_call, plot_vars, cli, old>>
outside_detector == <<engine_vars, map_call, plot_vars, cli, old>>
outside_map == <<engine_vars, detector_vars, plot_vars, cli, old>>
outside_plot == <<engine_vars, detector_vars, map_call, cli, old>>
outside_main == <<detector_vars, map_call, plot_call, old>>
outside_old == <<engine_vars, detector_vars, map_call, plot_vars, cli>>

-----------------------------------------------------------------------------
(* Bounds of the model *)

MaxParams == 2        \* most parameters in one study
MaxRows == 2          \* most initial states in one study
MaxIterBound == 6     \* largest max_iteration tried
MaxPeriodBound == 2   \* largest max_period tried by the engine
MaxCurveLen == 4      \* longest curve handed to the detector directly
MaxPeriodArg == 3     \* largest period / max_period handed to the detector
MaxPlotLen == 2       \* longest list handed to a plotting function
MaxArgs == 2          \* most values given to --parameter
MaxIterGiven == 4     \* largest max_iteration passed to both engines

-----------------------------------------------------------------------------
(* Exact rational arithmetic standing for float arithmetic *)

Abs(i) == IF i < 0 THEN -i ELSE i

RECURSIVE GCD(_, _)
GCD(a, b) == IF b = 0 THEN a ELSE GCD(b, a % b)

NaN == <<0, 0>>

IsNaN(x) == x[2] = 0

Rat(n, d) ==
    LET g == GCD(Abs(n), Abs(d))
        s == IF d < 0 THEN -1 ELSE 1
    IN  <<(s * n) \div g, (s * d) \div g>>

Zero == Rat(0, 1)
One == Rat(1, 1)

RMul(a, b) ==
    IF IsNaN(a) \/ IsNaN(b) THEN NaN
    ELSE IF a[1] = 0 \/ b[1] = 0 THEN Zero
    ELSE LET g1 == GCD(Abs(a[1]), b[2])
             g2 == GCD(Abs(b[1]), a[2])
         IN  Rat((a[1] \div g1) * (b[1] \div g2), (a[2] \div g2) * (b[2] \div g1))

RSub(a, b) ==
    IF IsNaN(a) \/ IsNaN(b) THEN NaN
    ELSE LET g == GCD(a[2], b[2])
         IN  Rat(a[1] * (b[2] \div g) - b[1] * (a[2] \div g), (a[2] \div g) * b[2])

RAbs(a) == <<Abs(a[1]), a[2]>>

\* a < b and a <= b; false when either side is NaN, as for floats
RLt(a, b) == ~IsNaN(a) /\ ~IsNaN(b) /\ RSub(a, b)[1] < 0
RLeq(a, b) == ~IsNaN(a) /\ ~IsNaN(b) /\ RSub(a, b)[1] <= 0

\* float(i)
ToFloat(i) == Rat(i, 1)

-----------------------------------------------------------------------------
(* numpy.allclose(a, b, rtol=rtol): elementwise |a - b| <= atol + rtol * |b| *)
(* with numpy's default atol = 1e-8 and equal_nan = False.                   *)

AtolDen == 100000000

\* x <= 1 / AtolDen for a rational x = n / d:  n * AtolDen <= d, which for
\* integers is n <= d \div AtolDen (no product that could overflow).
LeqAtol(x) == ~IsNaN(x) /\ x[1] <= x[2] \div AtolDen

isclose(a, b, rtol) ==
    /\ ~IsNaN(a)
    /\ ~IsNaN(b)
    /\ LeqAtol(RSub(RAbs(RSub(a, b)), RMul(rtol, RAbs(b))))

allclose(a, b, rtol) ==
    \A i \in 1..Len(a) : isclose(a[i], b[i], rtol)

-----------------------------------------------------------------------------
(* Python slicing of a sequence: curve[start:stop] and curve[start:] *)

PyIndex(i, n) ==
    IF i < 0 THEN (IF i + n < 0 THEN 0 ELSE i + n)
    ELSE (IF i > n THEN n ELSE i)

Slice(curve, start, stop) ==
    SubSeq(curve, PyIndex(start, Len(curve)) + 1, PyIndex(stop, Len(curve)))

SliceFrom(curve, start) ==
    SubSeq(curve, PyIndex(start, Len(curve)) + 1, Len(curve))

-----------------------------------------------------------------------------
(* The stability detector *)

\* stable_period's "no period": Python's None
None == -1

\* return_periods with the length test off by one (<= for <)
return_periods_strict(curve, period) ==
    IF Len(curve) <= 2 * period
    THEN [raised |-> TRUE, first |-> <<>>, second |-> <<>>]
    ELSE [raised |-> FALSE,
          first |-> SliceFrom(curve, -period),
          second |-> Slice(curve, -period - period, -period)]

return_periods(curve, period) ==
    IF Len(curve) < 2 * period
    THEN [raised |-> TRUE, first |-> <<>>, second |-> <<>>]
    ELSE LET first_period_start == -period
             second_period_start == first_period_start - period
             second_period_end == first_period_start
         IN  [raised |-> FALSE,
              first |-> SliceFrom(curve, first_period_start),
              second |-> Slice(curve, second_period_start, second_period_end)]

\* is_period_stable without its try/except: the ValueError escapes
is_period_stable_uncaught(curve, period, rtol) ==
    LET r == return_periods(curve, period)
    IN  IF r.raised
        THEN [raised |-> TRUE, value |-> FALSE]
        ELSE [raised |-> FALSE, value |-> allclose(r.first, r.second, rtol)]

\* The result names whether the call raised: the ValueError of return_periods
\* is caught, so it never does.
is_period_stable(curve, period, rtol) ==
    LET r == return_periods(curve, period)
    IN  IF r.raised
        THEN [raised |-> FALSE, value |-> FALSE]
        ELSE [raised |-> FALSE, value |-> allclose(r.first, r.second, rtol)]

RECURSIVE stable_period_from(_, _, _, _)
stable_period_from(curve, period, maxp, rtol) ==
    IF period > maxp THEN None
    ELSE IF is_period_stable(curve, period, rtol).value THEN period
    ELSE stable_period_from(curve, period + 1, maxp, rtol)

\* stable_period searching from max_period downwards
RECURSIVE stable_period_down(_, _, _)
stable_period_down(curve, period, rtol) ==
    IF period < 1 THEN None
    ELSE IF is_period_stable(curve, period, rtol).value THEN period
    ELSE stable_period_down(curve, period - 1, rtol)

stable_period_largest(curve, maxp, rtol) == stable_period_down(curve, maxp, rtol)

stable_period(curve, maxp, rtol) == stable_period_from(curve, 1, maxp, rtol)

\* The number of passes through stable_period's for loop, one
\* is_period_stable call each, until it returns
RECURSIVE stable_period_checks_from(_, _, _, _)
stable_period_checks_from(curve, period, maxp, rtol) ==
    IF period > maxp THEN 0
    ELSE IF is_period_stable(curve, period, rtol).value THEN 1
    ELSE 1 + stable_period_checks_from(curve, period + 1, maxp, rtol)

stable_period_checks(curve, maxp, rtol) ==
    stable_period_checks_from(curve, 1, maxp, rtol)

-----------------------------------------------------------------------------
(* The map *)

\* logistic without the parameter: x * (1 - x)
logistic_unscaled(x, r) == RMul(x, RSub(One, x))

\* chaos/main.py: return r * x * (1 - x)
logistic(x, r) == RMul(RMul(r, x), RSub(One, x))

\* main.py, the module the tests import: return r * x * (1 - x)
old_logistic(x, r) == RMul(RMul(r, x), RSub(One, x))

-----------------------------------------------------------------------------
(* calculate_curves *)

\* seeded_states seeding the first parameter only: states[0, :, 0] = initial_states
seeded_states_first_parameter(params, x0, ncols) ==
    [d \in 1..Len(params) |->
        [row \in 1..Len(x0) |->
            [i \in 1..ncols |-> IF i = 1 /\ d = 1 THEN x0[row] ELSE NaN]]]

\* states = numpy.full(...); states[:, :, 0] = initial_states
seeded_states(params, x0, ncols) ==
    [d \in 1..Len(params) |->
        [row \in 1..Len(x0) |->
            [i \in 1..ncols |-> IF i = 1 THEN x0[row] ELSE NaN]]]

\* range(1, max_iteration)
iteration_range(maxit) == 1..(maxit - 1)

\* A for loop that hands out the same iteration again
same_iteration(it) == it

\* for iteration in range(1, max_iteration): the iteration after it
next_iteration(it) == it + 1

\* step_rows advancing the first row only: states[depth, 0, iteration] = ...
step_rows_first_row(slice, it, parameter) ==
    [row \in 1..Len(slice) |->
        IF row = 1
        THEN [slice[row] EXCEPT ![it + 1] = logistic(slice[row][it], parameter)]
        ELSE slice[row]]

\* states[depth, :, iteration] = logistic(states[depth, :, previous_iteration], parameter)
step_rows(slice, it, parameter) ==
    LET previous_iteration == it - 1
    IN  [row \in 1..Len(slice) |->
            [slice[row] EXCEPT
                ![it + 1] = logistic(slice[row][previous_iteration + 1], parameter)]]

\* states[depth, row, :iteration]
curve_prefix(curve, it) == Slice(curve, 0, it)

\* [stable_period(states[depth, row, :iteration], ...) for row in range(len(initial_states))]
row_periods(slice, it, maxp, rtol) ==
    [row \in 1..Len(slice) |-> stable_period(curve_prefix(slice[row], it), maxp, rtol)]

\* The is_period_stable calls made for each row by the list comprehension
row_checks(slice, it, maxp, rtol) ==
    [row \in 1..Len(slice) |->
        stable_period_checks(curve_prefix(slice[row], it), maxp, rtol)]

\* numpy.all(periods) on a list of ints and None: every element truthy
np_all(periods) ==
    \A row \in 1..Len(periods) : periods[row] # None /\ periods[row] # 0

\* period = periods[0] if numpy.all(periods) else numpy.nan
batch_period(periods) ==
    IF np_all(periods) THEN ToFloat(periods[1]) ELSE NaN

\* numpy.any(states[depth, :, iteration] < 0.0)
any_negative(slice, it) ==
    \E row \in 1..Len(slice) : RLt(slice[row][it + 1], Zero)

\* numpy.any(states[depth, :, iteration] < 0.0) or not numpy.isnan(period)
stop_condition(slice, it, period) ==
    any_negative(slice, it) \/ ~IsNaN(period)

\* write_slice without the depth index: states[:, :, iteration] = ...
write_slice_every_parameter(array, d, slice) ==
    [e \in 1..Len(array) |-> slice]

\* states[depth, :, iteration] = ...: only parameter depth's slice is written
write_slice(array, d, slice) ==
    [array EXCEPT ![d + 1] = slice]

\* The body of calculate_curves up to the loops.  numpy.full accepts a zero
\* length axis; seeding index 0 of it raises IndexError.
Allocate ==
    /\ pc = "start"
    /\ IF max_iteration < 1
       THEN /\ pc' = "raised"
            /\ error' = "IndexError"
            /\ UNCHANGED <<states, parameter_periods, break_iteration>>
       ELSE /\ pc' = "loop"
            /\ states' = seeded_states(parameters, initial_states, max_iteration)
            /\ parameter_periods' = [d \in 1..Len(parameters) |-> NaN]
            /\ break_iteration' = [d \in 1..Len(parameters) |-> None]
            /\ UNCHANGED error
    /\ UNCHANGED <<initial_states, parameters, max_period, max_iteration,
                   relative_tolerance, depth, iteration, steps, checks>>
    /\ UNCHANGED outside_engine

\* The loops have a pass left to make: for depth ... for iteration ...
CanIterate ==
    /\ pc = "loop"
    /\ depth < Len(parameters)
    /\ iteration \in iteration_range(max_iteration)

\* One pass through the body of the inner loop.  With no initial state
\* numpy.all([]) is true and periods[0] raises IndexError.
Iterate ==
    /\ CanIterate
    /\ LET parameter == parameters[depth + 1]
           slice == step_rows(states[depth + 1], iteration, parameter)
           periods == row_periods(slice, iteration, max_period, relative_tolerance)
       IN  /\ states' = write_slice(states, depth, slice)
           /\ steps' = steps + 1
           /\ checks' = row_checks(slice, iteration, max_period, relative_tolerance)
           /\ IF np_all(periods) /\ Len(periods) = 0
              THEN /\ pc' = "raised"
                   /\ error' = "IndexError"
                   /\ UNCHANGED <<parameter_periods, depth, iteration,
                                  break_iteration>>
              ELSE LET period == batch_period(periods)
                   IN  IF stop_condition(slice, iteration, period)
                       THEN /\ parameter_periods' =
                                 [parameter_periods EXCEPT ![depth + 1] = period]
                            /\ break_iteration' =
                                 [break_iteration EXCEPT ![depth + 1] = iteration]
                            /\ depth' = depth + 1
                            /\ iteration' = 1
                            /\ UNCHANGED <<pc, error>>
                       ELSE /\ iteration' = next_iteration(iteration)
                            /\ UNCHANGED <<parameter_periods, depth, pc, error,
                                           break_iteration>>
    /\ UNCHANGED <<initial_states, parameters, max_period, max_iteration,
                   relative_tolerance>>
    /\ UNCHANGED outside_engine

\* The inner loop ran out of iterations without a break: next parameter.
NextParameter ==
    /\ pc = "loop"
    /\ depth < Len(parameters)
    /\ iteration \notin iteration_range(max_iteration)
    /\ depth' = depth + 1
    /\ iteration' = 1
    /\ UNCHANGED <<initial_states, parameters, max_period, max_iteration,
                   relative_tolerance, states, parameter_periods, pc, error,
                   steps, break_iteration, checks>>
    /\ UNCHANGED outside_engine

\* The outer loop is over: build the dataset and return it.
Return ==
    /\ pc = "loop"
    /\ depth = Len(parameters)
    /\ pc' = "returned"
    /\ UNCHANGED <<initial_states, parameters, max_period, max_iteration,
                   relative_tolerance, states, parameter_periods, depth,
                   iteration, error, steps, break_iteration, checks>>
    /\ UNCHANGED outside_engine

-----------------------------------------------------------------------------
(* Inputs of the study.  Every orbit of these values under these parameters *)
(* stays among small rationals: with r = 7/2, 3/7 -> 6/7 -> 3/7 is a cycle  *)
(* of period 2, 5/7 and 0 are fixed points and 2 maps to -7; with r = -1,   *)
(* 2 is a fixed point; r = 0 sends everything to 0.                         *)

ParamValues == {Rat(0, 1), Rat(7, 2), Rat(-1, 1)}
X0Values == {Rat(0, 1), Rat(3, 7), Rat(5, 7), Rat(2, 1)}
TolValues == {Rat(0, 1), Rat(1, 2)}

SeqsUpTo(S, n) == UNION {[1..k -> S] : k \in 0..n}

\* Lists without repeated elements, in any order: main() hands numpy.unique's
\* result to calculate_curves as parameters
DistinctSeqsUpTo(S, n) ==
    {s \in SeqsUpTo(S, n) : \A i, j \in 1..Len(s) : i # j => s[i] # s[j]}

DetectorIdle ==
    /\ d_pc = "off"
    /\ d_curve = <<>>
    /\ d_period = 0
    /\ d_max_period = 0
    /\ d_tol = Zero
    /\ d_result = [fn |-> "none"]

MapIdle == map_call = [pc |-> "off"]

\* No call made of matplotlib.pyplot (the state of the test's fresh mocks)
NoPyplotCalls ==
    [plot |-> 0, scatter |-> 0, title |-> 0, legend |-> 0, savefig |-> 0,
     show |-> 0]

PlotIdle ==
    /\ plot_call = [pc |-> "off"]
    /\ pyplot = NoPyplotCalls

MainIdle == cli = [pc |-> "off"]

OldIdle == old = [pc |-> "off"]

Init ==
    /\ initial_states \in SeqsUpTo(X0Values, MaxRows)
    /\ parameters \in DistinctSeqsUpTo(ParamValues, MaxParams)
    /\ max_period \in 0..MaxPeriodBound
    /\ max_iteration \in 0..MaxIterBound
    /\ relative_tolerance \in TolValues
    /\ states = <<>>
    /\ parameter_periods = <<>>
    /\ depth = 0
    /\ iteration = 1
    /\ pc = "start"
    /\ error = ""
    /\ steps = 0
    /\ break_iteration = <<>>
    /\ checks = <<>>
    /\ DetectorIdle
    /\ MapIdle
    /\ PlotIdle
    /\ MainIdle
    /\ OldIdle

Next == Allocate \/ Iterate \/ NextParameter \/ Return

Spec == Init /\ [][Next]_vars

-----------------------------------------------------------------------------
(* The stability detector called directly: one call of return_periods,      *)
(* is_period_stable or stable_period on a curve drawn from a bounded set.   *)
(* Tiny is a value below numpy's absolute tolerance.                        *)

Tiny == Rat(1, 2 * AtolDen)
CurveValues == {Zero, Tiny, One, Rat(2, 1), NaN}

EngineIdle ==
    /\ initial_states = <<>>
    /\ parameters = <<>>
    /\ max_period = 0
    /\ max_iteration = 0
    /\ relative_tolerance = Zero
    /\ states = <<>>
    /\ parameter_periods = <<>>
    /\ depth = 0
    /\ iteration = 1
    /\ pc = "off"
    /\ error = ""
    /\ steps = 0
    /\ break_iteration = <<>>
    /\ checks = <<>>

DetectorInit ==
    /\ EngineIdle
    /\ d_pc = "call"
    /\ d_curve \in SeqsUpTo(CurveValues, MaxCurveLen)
    /\ d_period \in 0..MaxPeriodArg
    /\ d_max_period \in 0..MaxPeriodArg
    /\ d_tol \in TolValues
    /\ d_result = [fn |-> "none"]
    /\ MapIdle
    /\ PlotIdle
    /\ MainIdle
    /\ OldIdle

CallReturnPeriods ==
    /\ d_pc = "call"
    /\ d_pc' = "done"
    /\ d_result' = [fn |-> "return_periods",
                    out |-> return_periods(d_curve, d_period)]
    /\ UNCHANGED <<d_curve, d_period, d_max_period, d_tol>>
    /\ UNCHANGED outside_detector

\* numpy.allclose needs windows of one shape: period >= 1
CallIsPeriodStable ==
    /\ d_pc = "call"
    /\ d_period >= 1
    /\ d_pc' = "done"
    /\ d_result' = [fn |-> "is_period_stable",
                    out |-> is_period_stable(d_curve, d_period, d_tol)]
    /\ UNCHANGED <<d_curve, d_period, d_max_period, d_tol>>
    /\ UNCHANGED outside_detector

CallStablePeriod ==
    /\ d_pc = "call"
    /\ d_pc' = "done"
    /\ d_result' = [fn |-> "stable_period",
                    out |-> stable_period(d_curve, d_max_period, d_tol)]
    /\ UNCHANGED <<d_curve, d_period, d_max_period, d_tol>>
    /\ UNCHANGED outside_detector

DetectorNext == CallReturnPeriods \/ CallIsPeriodStable \/ CallStablePeriod

DetectorSpec == DetectorInit /\ [][DetectorNext]_vars

-----------------------------------------------------------------------------
(* The map called directly, as test_logistic does, on the values of the     *)
(* test's table and NaN.                                                    *)

MapValues == {Zero, One, Rat(10, 1), Rat(-1, 1), Rat(-10, 1), Rat(1, 2),
              Rat(-1, 2), NaN}

MapInit ==
    /\ EngineIdle
    /\ DetectorIdle
    /\ map_call \in [pc : {"call"}, x : MapValues, r : MapValues]
    /\ PlotIdle
    /\ MainIdle
    /\ OldIdle

CallLogistic ==
    /\ map_call.pc = "call"
    /\ map_call' = [pc |-> "done", fn |-> "chaos.main.logistic",
                    x |-> map_call.x, r |-> map_call.r,
                    out |-> logistic(map_call.x, map_call.r)]
    /\ UNCHANGED outside_map

CallOldLogistic ==
    /\ map_call.pc = "call"
    /\ map_call' = [pc |-> "done", fn |-> "main.logistic",
                    x |-> map_call.x, r |-> map_call.r,
                    out |-> old_logistic(map_call.x, map_call.r)]
    /\ UNCHANGED outside_map

MapNext == CallLogistic \/ CallOldLogistic

MapSpec == MapInit /\ [][MapNext]_vars

-----------------------------------------------------------------------------
(* The plotting functions called directly, as test_plot_states does with    *)
(* matplotlib.pyplot.savefig and show patched: main.plot_states of the      *)
(* module the tests import, and matplotlib_output of the shipped package.   *)
(* A curve is "list" (an indexable row of values) or "float" (a bare        *)
(* number, as in the test's states=[[1.0]]); an argument that is not a list *)
(* is marked by a flag, and output is "None" or a file name.                *)

CurveKinds == {"list", "float"}
PeriodValues == {None, 1}
OutputValues == {"None", "dummy.png"}

\* if output is not None: savefig(output) else: show()
savefig_or_show(calls, output) ==
    IF output # "None"
    THEN [calls EXCEPT !.savefig = @ + 1]
    ELSE [calls EXCEPT !.show = @ + 1]

\* len(list(zip(parameters, periods)))
zip_length(a, b) == IF Len(a) < Len(b) THEN Len(a) ELSE Len(b)

PlotStatesArguments ==
    [pc : {"call"}, fn : {"plot_states"},
     states : SeqsUpTo(SeqsUpTo(CurveKinds, MaxPlotLen), MaxPlotLen),
     parameters_is_list : BOOLEAN,
     parameters : SeqsUpTo({One}, MaxPlotLen),
     periods_given : BOOLEAN,
     periods : SeqsUpTo(PeriodValues, MaxPlotLen),
     output : OutputValues,
     depth : {0}, curve : {0}, error : {""}]

MatplotlibOutputArguments ==
    [pc : {"call"}, fn : {"matplotlib_output"},
     states : {<<>>}, parameters_is_list : {TRUE}, parameters : {<<>>},
     periods_given : {TRUE}, periods : {<<>>},
     output : OutputValues,
     depth : {0}, curve : {0}, error : {""}]

\* An argument that is not a list has no elements to speak of
PlotInit ==
    /\ EngineIdle
    /\ DetectorIdle
    /\ MapIdle
    /\ plot_call \in PlotStatesArguments \cup MatplotlibOutputArguments
    /\ ~plot_call.parameters_is_list => plot_call.parameters = <<>>
    /\ ~plot_call.periods_given => plot_call.periods = <<>>
    /\ pyplot = NoPyplotCalls
    /\ MainIdle
    /\ OldIdle

\* enumerate(zip(parameters, periods)): zip raises TypeError on a float and
\* on the default periods=None
PlotStatesZip ==
    /\ plot_call.pc = "call"
    /\ plot_call.fn = "plot_states"
    /\ IF ~plot_call.parameters_is_list \/ ~plot_call.periods_given
       THEN plot_call' = [plot_call EXCEPT !.pc = "raised", !.error = "TypeError"]
       ELSE plot_call' = [plot_call EXCEPT !.pc = "loop"]
    /\ UNCHANGED pyplot
    /\ UNCHANGED outside_plot

\* for curve in states[depth]: matplotlib.pyplot.plot(curve, label=f"...{curve[0]}...")
\* The label is built before plot is called.
PlotStatesLine ==
    /\ plot_call.pc = "loop"
    /\ plot_call.depth < zip_length(plot_call.parameters, plot_call.periods)
    /\ IF plot_call.depth >= Len(plot_call.states)
       THEN /\ plot_call' = [plot_call EXCEPT !.pc = "raised",
                                               !.error = "IndexError"]
            /\ UNCHANGED pyplot
       ELSE LET curves == plot_call.states[plot_call.depth + 1]
            IN  IF plot_call.curve >= Len(curves)
                THEN /\ plot_call' = [plot_call EXCEPT !.depth = @ + 1,
                                                        !.curve = 0]
                     /\ UNCHANGED pyplot
                ELSE IF curves[plot_call.curve + 1] = "float"
                THEN /\ plot_call' = [plot_call EXCEPT !.pc = "raised",
                                                        !.error = "TypeError"]
                     /\ UNCHANGED pyplot
                ELSE /\ plot_call' = [plot_call EXCEPT !.curve = @ + 1]
                     /\ pyplot' = [pyplot EXCEPT !.plot = @ + 1]
    /\ UNCHANGED outside_plot

\* title, legend, then savefig or show
PlotStatesOutput ==
    /\ plot_call.pc = "loop"
    /\ plot_call.depth = zip_length(plot_call.parameters, plot_call.periods)
    /\ plot_call' = [plot_call EXCEPT !.pc = "done"]
    /\ pyplot' = savefig_or_show(
                     [pyplot EXCEPT !.title = @ + 1, !.legend = @ + 1],
                     plot_call.output)
    /\ UNCHANGED outside_plot

\* matplotlib_output(title, output)
MatplotlibOutput ==
    /\ plot_call.pc = "call"
    /\ plot_call.fn = "matplotlib_output"
    /\ plot_call' = [plot_call EXCEPT !.pc = "done"]
    /\ pyplot' = savefig_or_show([pyplot EXCEPT !.title = @ + 1],
                                 plot_call.output)
    /\ UNCHANGED outside_plot

PlotNext ==
    PlotStatesZip \/ PlotStatesLine \/ PlotStatesOutput \/ MatplotlibOutput

PlotSpec == PlotInit /\ [][PlotNext]_vars

-----------------------------------------------------------------------------
(* chaos.main.main(): parse the arguments, read the dataset of --input or   *)
(* compute it with calculate_curves (the engine's actions above), save it   *)
(* if --output is given, and draw the plots asked for.  Options that take a *)
(* path hold "None" when absent; --plot-curves and --plot-bifurcation hold  *)
(* "False" when absent and "None" when given without a path.                *)

DEFAULT_MARKER_SIZE == 8

\* --iteration-samples: its default is DEFAULT_MARKER_SIZE
IterationSamples == {1, DEFAULT_MARKER_SIZE}
InputValues == {"None", "study.h5"}
SaveValues == {"None", "out.h5"}
PlotCurvesValues == {"False", "None", "curves.png"}
PlotBifurcationValues == {"False", "None", "bifurcation.png"}
CliParameters == {Rat(0, 1), Rat(7, 2)}
CliInitial == {<<Rat(3, 7)>>, <<Rat(2, 1)>>}
CliMaxIteration == {0, 4}
CliMaxPeriod == {2}

NoData == [source |-> "unbound", period |-> <<>>, value |-> <<>>]

\* What a readable --input file holds: a study saved by an earlier run, with
\* the periods and the curves of its first initial state
FileDatasets ==
    {[source |-> "file", period |-> <<ToFloat(1)>>,
      value |-> <<<<Zero, Zero, NaN, NaN>>>>],
     [source |-> "file", period |-> <<NaN>>,
      value |-> <<<<Rat(2, 1), Rat(-7, 1), NaN, NaN>>>>]}

\* The sorted list of the elements of a set
RECURSIVE SortedSeq(_)
SortedSeq(S) ==
    IF S = {} THEN <<>>
    ELSE LET least == CHOOSE x \in S : \A y \in S : RLeq(x, y)
         IN  <<least>> \o SortedSeq(S \ {least})

\* numpy.unique(parameters): the sorted distinct values
numpy_unique(values) == SortedSeq({values[i] : i \in 1..Len(values)})

\* args.input is not None, without the test: the file is never read
input_never_given(args) == FALSE

\* args.input is not None
input_given(args) == args.input # "None"

\* xarray.Dataset(...) at the end of calculate_curves, as plot_bifurcation
\* reads it: the periods and, per parameter, the curve of data["x_0"][0]
computed_dataset ==
    [source |-> "computed", period |-> parameter_periods,
     value |-> [d \in 1..Len(states) |-> states[d][1]]]

ValidPositions(curve) == {i \in 0..(Len(curve) - 1) : ~IsNaN(curve[i + 1])}

\* len(series[series.first_valid_index() : series.last_valid_index()]): an
\* integer slice of a Series is positional, its end excluded; with no valid
\* value both indices are None and the whole series is kept
useful_length(curve) ==
    LET valid == ValidPositions(curve)
    IN  IF valid = {} THEN Len(curve)
        ELSE LET first == CHOOSE i \in valid : \A j \in valid : i <= j
                 last == CHOOSE i \in valid : \A j \in valid : j <= i
             IN  last - first

\* useful_series.sample(n=iteration_samples) raises ValueError when asked for
\* more values than the series has; it is called when period is None
sample_raises(data, iteration_samples) ==
    \E d \in 1..Len(data.period) :
        /\ IsNaN(data.period[d])
        /\ iteration_samples > useful_length(data.value[d])

MainArguments ==
    [pc : {"parse"},
     input : InputValues,
     parameter_given : BOOLEAN,
     parameter : SeqsUpTo(CliParameters, MaxArgs),
     initial : CliInitial,
     max_period : CliMaxPeriod,
     max_iteration : CliMaxIteration,
     relative_tolerance : {Zero},
     output : SaveValues,
     plot_curves : PlotCurvesValues,
     plot_bifurcation : PlotBifurcationValues,
     iteration_samples : IterationSamples,
     readable : BOOLEAN,
     file : FileDatasets,
     data : {NoData},
     log : {<<>>},
     error : {""}]

\* --parameter takes one value or more (nargs="+"); what is not used by the
\* run is held at one value
MainInit ==
    /\ EngineIdle
    /\ DetectorIdle
    /\ MapIdle
    /\ plot_call = [pc |-> "off"]
    /\ pyplot = NoPyplotCalls
    /\ OldIdle
    /\ cli \in MainArguments
    /\ cli.parameter_given <=> Len(cli.parameter) >= 1
    /\ cli.input = "None" =>
           /\ ~cli.readable
           /\ cli.file = CHOOSE f \in FileDatasets : IsNaN(f.period[1])
    /\ cli.input # "None" =>
           /\ Len(cli.parameter) <= 1
           /\ cli.initial = <<Rat(3, 7)>>
           /\ cli.max_iteration = 4

\* parser.parse_args(): --parameter and --input form a required mutually
\* exclusive group; argparse exits when both or neither is given
ParseArgs ==
    /\ cli.pc = "parse"
    /\ IF cli.parameter_given <=> (cli.input # "None")
       THEN cli' = [cli EXCEPT !.pc = "exit", !.error = "SystemExit"]
       ELSE cli' = [cli EXCEPT !.pc = "args"]
    /\ UNCHANGED <<engine_vars, pyplot>>
    /\ UNCHANGED outside_main

\* data = xarray.open_dataset(args.input)
OpenDataset ==
    /\ cli.pc = "args"
    /\ input_given(cli)
    /\ IF cli.readable
       THEN cli' = [cli EXCEPT !.pc = "save", !.data = cli.file,
                               !.log = Append(@, "open_dataset")]
       ELSE cli' = [cli EXCEPT !.pc = "raised", !.error = "FileNotFoundError",
                               !.log = Append(@, "open_dataset")]
    /\ UNCHANGED <<engine_vars, pyplot>>
    /\ UNCHANGED outside_main

\* parameters = numpy.unique(...); the call of calculate_curves
CallCalculateCurves ==
    /\ cli.pc = "args"
    /\ ~input_given(cli)
    /\ cli' = [cli EXCEPT !.pc = "calculate",
                          !.log = Append(@, "calculate_curves")]
    /\ initial_states' = cli.initial
    /\ parameters' = numpy_unique(cli.parameter)
    /\ max_period' = cli.max_period
    /\ max_iteration' = cli.max_iteration
    /\ relative_tolerance' = cli.relative_tolerance
    /\ pc' = "start"
    /\ UNCHANGED <<states, parameter_periods, depth, iteration, error, steps,
                   break_iteration, checks, pyplot>>
    /\ UNCHANGED outside_main

\* calculate_curves has returned its dataset, or its exception leaves main
CalculateCurvesOver ==
    /\ cli.pc = "calculate"
    /\ pc \in {"returned", "raised"}
    /\ IF pc = "returned"
       THEN cli' = [cli EXCEPT !.pc = "save", !.data = computed_dataset]
       ELSE cli' = [cli EXCEPT !.pc = "raised", !.error = error]
    /\ UNCHANGED <<engine_vars, pyplot>>
    /\ UNCHANGED outside_main

\* if args.output: data.to_netcdf(args.output, engine="h5netcdf")
SaveOutput ==
    /\ cli.pc = "save"
    /\ IF cli.output # "None"
       THEN cli' = [cli EXCEPT !.pc = "plot_curves",
                               !.log = Append(@, "to_netcdf")]
       ELSE cli' = [cli EXCEPT !.pc = "plot_curves"]
    /\ UNCHANGED <<engine_vars, pyplot>>
    /\ UNCHANGED outside_main

\* if args.plot_curves is not False: plot_curves(data, output=args.plot_curves)
\* One line plot and one legend for the first initial state's curves, then
\* matplotlib_output.
PlotCurves ==
    /\ cli.pc = "plot_curves"
    /\ IF cli.plot_curves # "False"
       THEN /\ cli' = [cli EXCEPT !.pc = "plot_bifurcation",
                                  !.log = Append(@, "plot_curves")]
            /\ pyplot' = savefig_or_show(
                             [pyplot EXCEPT !.plot = @ + 1, !.legend = @ + 1,
                                            !.title = @ + 1],
                             cli.plot_curves)
       ELSE /\ cli' = [cli EXCEPT !.pc = "plot_bifurcation"]
            /\ UNCHANGED pyplot
    /\ UNCHANGED engine_vars
    /\ UNCHANGED outside_main

\* if args.plot_bifurcation is not False: plot_bifurcation(data, ...)
PlotBifurcation ==
    /\ cli.pc = "plot_bifurcation"
    /\ IF cli.plot_bifurcation = "False"
       THEN /\ cli' = [cli EXCEPT !.pc = "done"]
            /\ UNCHANGED pyplot
       ELSE IF sample_raises(cli.data, cli.iteration_samples)
       THEN /\ cli' = [cli EXCEPT !.pc = "raised", !.error = "ValueError",
                                  !.log = Append(@, "plot_bifurcation")]
            /\ UNCHANGED pyplot
       ELSE /\ cli' = [cli EXCEPT !.pc = "done",
                                  !.log = Append(@, "plot_bifurcation")]
            /\ pyplot' = savefig_or_show(
                             [pyplot EXCEPT !.scatter = @ + Len(cli.data.period),
                                            !.title = @ + 1],
                             cli.plot_bifurcation)
    /\ UNCHANGED engine_vars
    /\ UNCHANGED outside_main

MainNext ==
    \/ ParseArgs
    \/ OpenDataset
    \/ CallCalculateCurves
    \/ Allocate
    \/ Iterate
    \/ NextParameter
    \/ Return
    \/ CalculateCurvesOver
    \/ SaveOutput
    \/ PlotCurves
    \/ PlotBifurcation

MainSpec == MainInit /\ [][MainNext]_vars

-----------------------------------------------------------------------------
(* The two engines on one call: calculate_curves of the shipped package     *)
(* (the actions Allocate .. Return above) and then calculate_states of      *)
(* main.py, the module the tests import.  An argument the call omits takes  *)
(* each function's own default.  main.py's copies of return_periods,        *)
(* is_period_stable and stable_period are textually those of the package,   *)
(* and are modelled by the same operators.                                  *)

DEFAULT_MAX_PERIOD == 12
DEFAULT_MAX_ITERATION == 1000
DEFAULT_RELATIVE_TOLERANCE == Rat(1, 1000000)

main_DEFAULT_MAX_ITERATION == 100
main_DEFAULT_RELATIVE_TOLERANCE == Rat(1, 10000)
main_DEFAULT_MAX_PERIOD == 12

OptionalArguments == {"max_period", "max_iteration", "relative_tolerance"}

\* A study whose first step moves x by 5e-5 of its value: from 20000 to 20001
SlowInitial == Rat(20000, 1)
SlowParameter == Rat(-20001, 399980000)

Studies ==
    [initial_states : SeqsUpTo(X0Values, MaxRows),
     parameters : DistinctSeqsUpTo(ParamValues, MaxParams)]
    \cup {[initial_states |-> <<SlowInitial>>, parameters |-> <<SlowParameter>>]}

\* The slow study is run for two steps only
EquivInit ==
    /\ \E study \in Studies, given \in SUBSET OptionalArguments,
          maxp \in {2}, maxit \in 0..MaxIterGiven, rtol \in {Zero} :
          /\ study.initial_states = <<SlowInitial>> =>
                 "max_iteration" \in given /\ maxit <= 3
          /\ initial_states = study.initial_states
          /\ parameters = study.parameters
          /\ max_period =
                 IF "max_period" \in given THEN maxp ELSE DEFAULT_MAX_PERIOD
          /\ max_iteration =
                 IF "max_iteration" \in given THEN maxit ELSE DEFAULT_MAX_ITERATION
          /\ relative_tolerance =
                 IF "relative_tolerance" \in given THEN rtol
                 ELSE DEFAULT_RELATIVE_TOLERANCE
          /\ old = [pc |-> "wait",
                    given |-> given,
                    max_period |->
                        IF "max_period" \in given THEN maxp
                        ELSE main_DEFAULT_MAX_PERIOD,
                    max_iteration |->
                        IF "max_iteration" \in given THEN maxit
                        ELSE main_DEFAULT_MAX_ITERATION,
                    relative_tolerance |->
                        IF "relative_tolerance" \in given THEN rtol
                        ELSE main_DEFAULT_RELATIVE_TOLERANCE,
                    states |-> <<>>, parameter_periods |-> <<>>,
                    depth |-> 0, iteration |-> 1, error |-> "", steps |-> 0,
                    break_iteration |-> <<>>]
    /\ states = <<>>
    /\ parameter_periods = <<>>
    /\ depth = 0
    /\ iteration = 1
    /\ pc = "start"
    /\ error = ""
    /\ steps = 0
    /\ break_iteration = <<>>
    /\ checks = <<>>
    /\ DetectorIdle
    /\ MapIdle
    /\ PlotIdle
    /\ MainIdle

\* main.py: states[depth, :, iteration] = logistic(states[depth, :, previous_iteration], parameter)
old_step_rows(slice, it, parameter) ==
    LET previous_iteration == it - 1
    IN  [row \in 1..Len(slice) |->
            [slice[row] EXCEPT
                ![it + 1] = old_logistic(slice[row][previous_iteration + 1], parameter)]]

\* main.py: period = periods[0] if numpy.all(periods) else None
old_batch_period(periods) ==
    IF np_all(periods) THEN periods[1] ELSE None

\* main.py: numpy.any(states[depth, :, iteration] < 0.0) or period is not None
old_stop_condition(slice, it, period) ==
    any_negative(slice, it) \/ period # None

\* calculate_states up to its loops; it is called once calculate_curves is over
OldAllocate ==
    /\ old.pc = "wait"
    /\ pc \in {"returned", "raised"}
    /\ IF old.max_iteration < 1
       THEN old' = [old EXCEPT !.pc = "raised", !.error = "IndexError"]
       ELSE old' = [old EXCEPT
                       !.pc = "loop",
                       !.states = seeded_states(parameters, initial_states,
                                                old.max_iteration),
                       !.parameter_periods = [d \in 1..Len(parameters) |-> None],
                       !.break_iteration = [d \in 1..Len(parameters) |-> None]]
    /\ UNCHANGED outside_old

\* One pass through the body of calculate_states' inner loop
OldIterate ==
    /\ old.pc = "loop"
    /\ old.depth < Len(parameters)
    /\ old.iteration \in iteration_range(old.max_iteration)
    /\ LET parameter == parameters[old.depth + 1]
           slice == old_step_rows(old.states[old.depth + 1], old.iteration,
                                  parameter)
           periods == row_periods(slice, old.iteration, old.max_period,
                                  old.relative_tolerance)
           stepped == [old EXCEPT
                          !.states = write_slice(old.states, old.depth, slice),
                          !.steps = @ + 1]
       IN  IF np_all(periods) /\ Len(periods) = 0
           THEN old' = [stepped EXCEPT !.pc = "raised", !.error = "IndexError"]
           ELSE LET period == old_batch_period(periods)
                IN  IF old_stop_condition(slice, old.iteration, period)
                    THEN old' = [stepped EXCEPT
                                    !.parameter_periods[old.depth + 1] = period,
                                    !.break_iteration[old.depth + 1] =
                                        old.iteration,
                                    !.depth = @ + 1,
                                    !.iteration = 1]
                    ELSE old' = [stepped EXCEPT
                                    !.iteration = next_iteration(@)]
    /\ UNCHANGED outside_old

\* The inner loop ran out of iterations without a break: next parameter.
OldNextParameter ==
    /\ old.pc = "loop"
    /\ old.depth < Len(parameters)
    /\ old.iteration \notin iteration_range(old.max_iteration)
    /\ old' = [old EXCEPT !.depth = @ + 1, !.iteration = 1]
    /\ UNCHANGED outside_old

\* return states, parameter_periods
OldReturn ==
    /\ old.pc = "loop"
    /\ old.depth = Len(parameters)
    /\ old' = [old EXCEPT !.pc = "returned"]
    /\ UNCHANGED outside_old

EquivNext ==
    \/ Allocate
    \/ Iterate
    \/ NextParameter
    \/ Return
    \/ OldAllocate
    \/ OldIterate
    \/ OldNextParameter
    \/ OldReturn

EquivSpec == EquivInit /\ [][EquivNext]_vars

-----------------------------------------------------------------------------
(* Properties of the stability detector, under DetectorSpec *)

\* The i-th value (1..p) of the last p values of a curve, and of the p before
LastWindow(curve, p, i) == curve[Len(curve) - p + i]
PrevWindow(curve, p, i) == curve[Len(curve) - 2 * p + i]

\* |a - b| <= tol * |b|
WithinRelative(a, b, tol) == RLeq(RAbs(RSub(a, b)), RMul(tol, RAbs(b)))

\* |a - b| <= 1e-8 + tol * |b|
WithinAbsoluteAndRelative(a, b, tol) ==
    RLeq(RSub(RAbs(RSub(a, b)), RMul(tol, RAbs(b))), Rat(1, AtolDen))

\* C3: stable_period returns the smallest p in 1..max_period for which
\* is_period_stable holds, and None when there is none.
C3_SmallestStablePeriod ==
    d_result.fn = "stable_period" =>
        LET stable == {p \in 1..d_max_period :
                          is_period_stable(d_curve, p, d_tol).value}
        IN  IF stable = {}
            THEN d_result.out = None
            ELSE /\ d_result.out \in stable
                 /\ \A p \in stable : d_result.out <= p

\* A curve stable at both period 1 and period 2 reports 1.
C3_Witness ==
    /\ d_result.fn = "stable_period"
    /\ is_period_stable(d_curve, 1, d_tol).value
    /\ is_period_stable(d_curve, 2, d_tol).value
    /\ d_max_period >= 2
    /\ d_result.out = 1

\* C6 as stated: is_period_stable never raises and is true iff the curve has
\* at least 2p points and every value a of the last p is within the relative
\* tolerance of the matching value b of the p before: |a - b| <= tol * |b|.
C6_RelativeToleranceOnly ==
    d_result.fn = "is_period_stable" =>
        /\ ~d_result.out.raised
        /\ d_result.out.value <=>
              /\ Len(d_curve) >= 2 * d_period
              /\ \A i \in 1..d_period :
                    WithinRelative(LastWindow(d_curve, d_period, i),
                                   PrevWindow(d_curve, d_period, i), d_tol)

\* C6 amended: the comparison is numpy.allclose's, with its default absolute
\* tolerance: |a - b| <= 1e-8 + tol * |b|.
C6_AbsoluteAndRelativeTolerance ==
    d_result.fn = "is_period_stable" =>
        /\ ~d_result.out.raised
        /\ d_result.out.value <=>
              /\ Len(d_curve) >= 2 * d_period
              /\ \A i \in 1..d_period :
                    WithinAbsoluteAndRelative(LastWindow(d_curve, d_period, i),
                                              PrevWindow(d_curve, d_period, i),
                                              d_tol)

\* Two different values found stable at period 1 with a relative tolerance of 0.
C6_Witness ==
    /\ d_result.fn = "is_period_stable"
    /\ d_period = 1
    /\ d_tol = Zero
    /\ Len(d_curve) >= 2
    /\ LastWindow(d_curve, 1, 1) # PrevWindow(d_curve, 1, 1)
    /\ d_result.out.value

\* C7: for p >= 1 return_periods raises ValueError exactly when
\* len(curve) < 2p; otherwise both windows have length p, the first is the
\* last p values and the second the p values before them.
C7_ReturnPeriodsWindows ==
    (d_result.fn = "return_periods" /\ d_period >= 1) =>
        LET out == d_result.out
        IN  /\ out.raised <=> Len(d_curve) < 2 * d_period
            /\ ~out.raised =>
                  /\ Len(out.first) = d_period
                  /\ Len(out.second) = d_period
                  /\ \A i \in 1..d_period :
                        /\ out.first[i] = LastWindow(d_curve, d_period, i)
                        /\ out.second[i] = PrevWindow(d_curve, d_period, i)

\* Length 4 and p = 2: the windows are curve[2:4] and curve[0:2], and differ.
C7_Witness ==
    /\ d_result.fn = "return_periods"
    /\ d_period = 2
    /\ Len(d_curve) = 4
    /\ ~d_result.out.raised
    /\ d_result.out.first = <<d_curve[3], d_curve[4]>>
    /\ d_result.out.second = <<d_curve[1], d_curve[2]>>
    /\ d_result.out.first # d_result.out.second

-----------------------------------------------------------------------------
(* Properties of calculate_curves, under Spec *)

\* The periods the detector reports for the rows of parameter d (1-based) at
\* iteration it, as the loop computes them
PeriodsAt(d, it) ==
    row_periods(states[d], it, max_period, relative_tolerance)

\* The period all rows agree on, None when they disagree or one has none
CommonPeriod(periods) ==
    IF /\ Len(periods) > 0
       /\ periods[1] # None
       /\ \A row \in 1..Len(periods) : periods[row] = periods[1]
    THEN periods[1]
    ELSE None

\* A stop condition of the claims at iteration it of parameter d: a negative
\* newest value in some row, or a period common to all rows
Trigger(d, it) ==
    any_negative(states[d], it) \/ CommonPeriod(PeriodsAt(d, it)) # None

Rows == 1..Len(initial_states)

\* Every slot of parameter d is set
AllSet(d) ==
    \A row \in Rows : \A i \in 1..max_iteration : ~IsNaN(states[d][row][i])

\* C1: a parameter's period is recorded only if every row's detected period
\* is that same period; when the rows disagree (or one has none) the period
\* stays undetermined and the loop was stopped by a negative value only.
C1_PeriodOnlyIfRowsAgree ==
    \A d \in 1..Len(break_iteration) :
        break_iteration[d] # None =>
            LET common == CommonPeriod(PeriodsAt(d, break_iteration[d]))
            IN  IF common # None
                THEN parameter_periods[d] = ToFloat(common)
                ELSE /\ IsNaN(parameter_periods[d])
                     /\ any_negative(states[d], break_iteration[d])

\* C2: when a parameter is returned with period p, in every row the last p
\* set values (those up to the newest one) match the p values before them.
C2_NewestValuesRepeat ==
    pc = "returned" =>
        \A d \in 1..Len(parameters) :
            ~IsNaN(parameter_periods[d]) =>
                \A row \in Rows :
                    is_period_stable(
                        Slice(states[d][row], 0, break_iteration[d] + 1),
                        parameter_periods[d][1],
                        relative_tolerance).value

InvalidInput ==
    \/ Len(parameters) = 0
    \/ Len(initial_states) = 0
    \/ max_iteration < 1
    \/ max_period < 1

\* C4: on invalid input the engine fails before it allocates an array or
\* computes a step, and never returns a result.
C4_InvalidInputRejected ==
    (pc # "off" /\ InvalidInput) =>
        /\ pc \in {"start", "raised"}
        /\ states = <<>>
        /\ steps = 0

\* C5: a parameter's loop stops at the first iteration with a negative newest
\* value or a common period; that iteration's value is stored and every
\* later slot stays unset.
C5_StopsAtFirstTrigger ==
    \A d \in 1..depth :
        LET b == break_iteration[d]
        IN  IF b # None
            THEN /\ Trigger(d, b)
                 /\ \A j \in 1..(b - 1) : ~Trigger(d, j)
                 /\ \A row \in Rows :
                       /\ ~IsNaN(states[d][row][b + 1])
                       /\ \A i \in (b + 2)..max_iteration : IsNaN(states[d][row][i])
            ELSE \A j \in iteration_range(max_iteration) : ~Trigger(d, j)

\* C8: once the array exists, the set entries of a parameter are iterations
\* 0..k for one k shared by all its rows, entry 0 is the row's initial state,
\* and every entry after k is unset.
C8_LockStepPrefix ==
    pc \in {"loop", "returned", "raised"} /\ max_iteration >= 1 =>
        \A d \in 1..Len(parameters) :
            \E k \in 0..(max_iteration - 1) :
                \A row \in Rows :
                    /\ states[d][row][1] = initial_states[row]
                    /\ \A i \in 0..(max_iteration - 1) :
                          ~IsNaN(states[d][row][i + 1]) <=> i <= k

\* Two rows with different values stopped together before the last iteration.
C8_Witness ==
    /\ pc = "returned"
    /\ Len(initial_states) = 2
    /\ \E d \in 1..Len(parameters) :
          /\ break_iteration[d] # None
          /\ break_iteration[d] >= 2
          /\ break_iteration[d] < max_iteration - 1
          /\ states[d][1][break_iteration[d] + 1] # states[d][2][break_iteration[d] + 1]
          /\ IsNaN(states[d][1][max_iteration])
          /\ IsNaN(states[d][2][max_iteration])

\* C9: a parameter with no negative value and no common period at any
\* iteration has all its slots set and an undetermined period; a recorded
\* period is an integer in 1..max_period.
C9_RunsToCompletion ==
    pc = "returned" =>
        \A d \in 1..Len(parameters) :
            /\ (\A j \in iteration_range(max_iteration) : ~Trigger(d, j)) =>
                  (AllSet(d) /\ IsNaN(parameter_periods[d]))
            /\ ~IsNaN(parameter_periods[d]) =>
                  /\ parameter_periods[d][2] = 1
                  /\ parameter_periods[d][1] \in 1..max_period

\* C10: with max_iteration = 1 and non-empty inputs no map step is done, the
\* result holds exactly the initial states and every period is undetermined.
C10_SingleIteration ==
    (pc # "off" /\ max_iteration = 1
        /\ Len(parameters) >= 1 /\ Len(initial_states) >= 1) =>
        /\ steps = 0
        /\ pc # "raised"
        /\ pc = "returned" =>
              /\ states = [d \in 1..Len(parameters) |->
                              [row \in Rows |-> <<initial_states[row]>>]]
              /\ parameter_periods = [d \in 1..Len(parameters) |-> NaN]

C10_Witness ==
    /\ pc = "returned"
    /\ max_iteration = 1
    /\ Len(parameters) = 2
    /\ Len(initial_states) = 2
    /\ initial_states[1] # initial_states[2]
    /\ max_period >= 1

\* One parameter run on its own: the slice and the period the loop leaves for
\* it, from the seeded slice, the parameter and the configuration alone
RECURSIVE SoloRun(_, _, _)
SoloRun(slice, it, parameter) ==
    IF it \notin iteration_range(max_iteration)
    THEN [slice |-> slice, period |-> NaN]
    ELSE LET next == step_rows(slice, it, parameter)
             period == batch_period(
                 row_periods(next, it, max_period, relative_tolerance))
         IN  IF stop_condition(next, it, period)
             THEN [slice |-> next, period |-> period]
             ELSE SoloRun(next, it + 1, parameter)

SeededSlice ==
    [row \in Rows |->
        [i \in 1..max_iteration |-> IF i = 1 THEN initial_states[row] ELSE NaN]]

\* C11: a step of the loop for one parameter leaves every other parameter's
\* slice and period as they were, and what is returned for a parameter is
\* what that parameter gives when run on its own, whatever the other
\* parameters of the list and their order.
C11_ParametersIndependent ==
    [][/\ pc = "loop" =>
             \A d \in 1..Len(parameters) :
                 d # depth + 1 =>
                     /\ states'[d] = states[d]
                     /\ parameter_periods'[d] = parameter_periods[d]
       /\ pc' = "returned" =>
             \A d \in 1..Len(parameters) :
                 LET solo == SoloRun(SeededSlice, 1, parameters[d])
                 IN  /\ states'[d] = solo.slice
                     /\ parameter_periods'[d] = solo.period]_vars

\* Two parameters returned with different slices, stopped at different iterations.
C11_Witness ==
    /\ pc = "returned"
    /\ Len(parameters) = 2
    /\ Len(initial_states) >= 1
    /\ states[1] # states[2]
    /\ break_iteration[1] # None
    /\ break_iteration[2] # None
    /\ break_iteration[1] # break_iteration[2]
    /\ parameter_periods[1] # parameter_periods[2]

\* The counts of the loops: the iterations done for the current parameter,
\* the map steps done so far, and the period checks of the latest step
StepBounds ==
    pc \in {"loop", "returned"} =>
        /\ iteration - 1 <= max_iteration - 1
        /\ \A d \in 1..Len(parameters) :
               break_iteration[d] # None => break_iteration[d] <= max_iteration - 1
        /\ steps <= depth * (max_iteration - 1) + (iteration - 1)
        /\ steps <= Len(parameters) * (max_iteration - 1)
        /\ \A row \in 1..Len(checks) : checks[row] <= max_period

\* What is left of the call: the passes of the two loops still to come
Remaining ==
    CASE pc = "start" -> Len(parameters) * (max_iteration + 1) + 2
      [] pc = "loop" ->
            (Len(parameters) - depth) * (max_iteration + 1) - iteration + 2
      [] OTHER -> 0

\* C12: on valid input the engine terminates by returning: it never raises,
\* until it has returned one of its steps can be taken (the pass of the inner
\* loop whenever the loops have one left), and every step brings it nearer to
\* the end; each parameter takes at most max_iteration - 1 map steps, each
\* step makes at most max_period period checks per row, and the run takes at
\* most len(parameters) * (max_iteration - 1) steps in all.
C12_Terminates ==
    /\ []StepBounds
    /\ [](~InvalidInput => /\ pc # "raised"
                           /\ pc # "returned" =>
                                  \/ ENABLED Allocate
                                  \/ CanIterate
                                  \/ ENABLED NextParameter
                                  \/ ENABLED Return)
    /\ [][Remaining' < Remaining /\ Remaining' >= 0]_vars

\* A valid run in which no stop condition triggered: every parameter used all
\* its iterations, and the latest step made max_period checks for a row.
C12_Witness ==
    /\ pc = "returned"
    /\ ~InvalidInput
    /\ Len(parameters) = 2
    /\ max_iteration >= 3
    /\ \A d \in 1..Len(parameters) : break_iteration[d] = None
    /\ steps = Len(parameters) * (max_iteration - 1)
    /\ \E row \in 1..Len(checks) : checks[row] = max_period

-----------------------------------------------------------------------------
(* Properties of the map, under MapSpec *)

\* C13: for finite x and r both logistic functions return the value of
\* r * x * (1 - x), negative x and r included: the result n/d satisfies
\* n * (rd * xd * xd) = (rn * xn * (xd - xn)) * d for x = xn/xd and r = rn/rd;
\* logistic(0, r) = 0, logistic(1, r) = 0 and logistic(x, 0) = 0; a NaN
\* argument gives NaN.
C13_LogisticValue ==
    map_call.pc = "done" =>
        LET x == map_call.x
            r == map_call.r
            out == map_call.out
        IN  IF IsNaN(x) \/ IsNaN(r)
            THEN IsNaN(out)
            ELSE /\ ~IsNaN(out)
                 /\ out[1] * (r[2] * x[2] * x[2])
                        = (r[1] * x[1] * (x[2] - x[1])) * out[2]
                 /\ x = Zero => out = Zero
                 /\ x = One => out = Zero
                 /\ r = Zero => out = Zero

\* logistic(-1, -1) = 2 returned by the shipped function
C13_Witness ==
    /\ map_call.pc = "done"
    /\ map_call.fn = "chaos.main.logistic"
    /\ map_call.x = Rat(-1, 1)
    /\ map_call.r = Rat(-1, 1)
    /\ map_call.out = Rat(2, 1)

-----------------------------------------------------------------------------
(* Properties of the plotting functions, under PlotSpec *)

\* C14: when a plot call is over, with no output path show was called once
\* and savefig not at all, and with an output path savefig was called once
\* and show not at all.
C14_ShowsOrSaves ==
    plot_call.pc \in {"done", "raised"} =>
        IF plot_call.output = "None"
        THEN pyplot.show = 1 /\ pyplot.savefig = 0
        ELSE pyplot.savefig = 1 /\ pyplot.show = 0

-----------------------------------------------------------------------------
(* Properties of main, under MainSpec *)

Logged(event) == \E i \in 1..Len(cli.log) : cli.log[i] = event

\* C15: calculate_curves is called only when no input file was given, and
\* then the file is not read; with an input file the file is read and the
\* engine never starts; a run that gets past reading or computing has done
\* exactly the one its arguments select; and the save and the plots happen
\* only once data is bound to the loaded or computed dataset.
C15_ComputeIffNoInput ==
    /\ Logged("calculate_curves") => cli.input = "None" /\ ~Logged("open_dataset")
    /\ Logged("open_dataset") => cli.input # "None" /\ ~Logged("calculate_curves")
    /\ cli.input # "None" => pc = "off" /\ steps = 0 /\ states = <<>>
    /\ cli.pc \in {"save", "plot_curves", "plot_bifurcation", "done"} =>
           /\ Logged("calculate_curves") <=> cli.input = "None"
           /\ Logged("open_dataset") <=> cli.input # "None"
           /\ cli.data.source = (IF cli.input = "None" THEN "computed" ELSE "file")
    /\ Logged("to_netcdf") \/ Logged("plot_curves") \/ Logged("plot_bifurcation")
           \/ pyplot # NoPyplotCalls =>
           /\ cli.data.source \in {"file", "computed"}
           /\ cli.log[1] \in {"open_dataset", "calculate_curves"}
           /\ cli.data.source = "computed" => pc = "returned"

\* A run with an input file that read it, saved and drew both plots
C15_Witness ==
    /\ cli.pc = "done"
    /\ cli.input # "None"
    /\ cli.log = <<"open_dataset", "to_netcdf", "plot_curves", "plot_bifurcation">>
    /\ pyplot.savefig + pyplot.show = 2

\* A run without an input file that computed two parameters, saved and drew
\* both plots
C15_WitnessComputed ==
    /\ cli.pc = "done"
    /\ cli.input = "None"
    /\ steps >= 2
    /\ Len(parameters) = 2
    /\ cli.log = <<"calculate_curves", "to_netcdf", "plot_curves", "plot_bifurcation">>

-----------------------------------------------------------------------------
(* Properties of the two engines, under EquivSpec *)

BothOver == pc \in {"returned", "raised"} /\ old.pc \in {"returned", "raised"}

\* C16: when both engines are over they ended the same way after the same
\* number of map steps, stopped each parameter at the same iteration, hold
\* the same value array, and their periods correspond, None standing for NaN.
C16_RevisionsAgree ==
    BothOver =>
        /\ old.pc = pc
        /\ old.error = error
        /\ old.steps = steps
        /\ old.break_iteration = break_iteration
        /\ old.states = states
        /\ Len(old.parameter_periods) = Len(parameter_periods)
        /\ \A d \in 1..Len(parameter_periods) :
               IF old.parameter_periods[d] = None
               THEN IsNaN(parameter_periods[d])
               ELSE parameter_periods[d] = ToFloat(old.parameter_periods[d])

====
